---- MODULE Spec2Model ----
(***************************************************************************)
(* Model of the rate-limited, retrying GraphQL execution layer of the      *)
(* Stack Overflow for Teams -> GitHub Discussions migration tool:          *)
(*   RateLimitedTransport          (github_discussions_client.py 6-31)     *)
(*   GitHubDiscussionsClient       (github_discussions_client.py 33-204)   *)
(* The client is driven by a caller that invokes its public methods one    *)
(* at a time (the program is single threaded).  The remote endpoint is the *)
(* environment: every transport call draws its outcome from Outcomes.      *)
(***************************************************************************)
EXTENDS Integers, Sequences, FiniteSets, TLC

VARIABLES
    rate_limit_remaining,   \* RateLimitedTransport.rate_limit_remaining: None or <<n>>
    rate_limit_reset,       \* RateLimitedTransport.rate_limit_reset:     None or <<n>>
    now,                    \* time.time(), in whole seconds
    pc,                     \* position of the single thread
    api,                    \* client method being run by the caller
    is_answer,              \* create_comment's is_answer argument
    op,                     \* operation of the running execute_query
    arg,                    \* id argument of that operation ("" when it has none)
    attempt,                \* execute_query's local attempt
    exc,                    \* exception in flight (NoExc when none)
    ret,                    \* value returned by the last transport call
    result,                 \* create_comment's local result
    api_status,             \* "none", "running", "ok", "error": how the method ended
    attempts,               \* outcomes of the transport calls of this execute_query
    sleeps,                 \* time.sleep calls of this execute_query, in order
    applied,                \* times the remote applied this execute_query's operation
    requests,               \* HTTP POSTs issued by the last transport call
    lastWait,               \* what the last _wait_if_rate_limited saw and did
    lastResp,               \* outcome the remote gave to the last transport call
    gated,                  \* _wait_if_rate_limited ran since the last transport call
    calls,                  \* execute_query invocations of the running client method
    ncalls,                 \* client methods invoked so far
    quotaSlept,             \* some quota wait happened in this run
    allPositive,            \* every response read so far reported remaining > 0
    effects,                \* operations the remote applied for the running client method
    mpc,                    \* position of main ("off": the client is driven directly)
    repo,                   \* args.repo: None or the text given with --repo
    remote_categories,      \* names of the repository's discussion categories
    posts,                  \* posts loaded from data/posts.json
    idx,                    \* position of the for loop of main in posts
    discussion_tokens,      \* main's discussion_tokens: question id -> result
    answer_ids,             \* main's answer_ids: question id -> accepted answer id
    mlog,                   \* what main printed and which client methods it called
    exit_code               \* None while running, then the exit status

vars == <<rate_limit_remaining, rate_limit_reset, now, pc, api, is_answer, op,
          arg, attempt, exc, ret, result, api_status, attempts, sleeps,
          applied, requests, lastWait, lastResp, gated, calls, ncalls,
          quotaSlept, allPositive, effects, mpc, repo, remote_categories,
          posts, idx, discussion_tokens, answer_ids, mlog, exit_code>>

mainVars == <<mpc, repo, remote_categories, posts, idx, discussion_tokens,
              answer_ids, mlog, exit_code>>

(***************************************************************************)
(* Bounds and program constants                                            *)
(***************************************************************************)
\* client methods the caller invokes in one run; one create_comment already
\* runs execute_query twice, the second with the rate state the first left
MaxCalls == 1

max_retries == 4

BackoffBase == 5

MinSleep == 1

MissingHeader == -1

ResetValues == {1010}

RemainingValues == {0, 3}

CommentIds == {"C1", "C2"}

None == <<>>

Some(n) == <<n>>

Max(a, b) == IF a >= b THEN a ELSE b

RECURSIVE Pow(_, _)
Pow(b, e) == IF e = 0 THEN 1 ELSE b * Pow(b, e - 1)

(***************************************************************************)
(* Exceptions.  str(e) is a sequence of words; the throttle test of        *)
(* execute_query is a substring test on it.                                *)
(***************************************************************************)
Signature == <<"was", "submitted", "too", "quickly">>

NoExc == [type |-> "none", msg |-> <<>>]

ThrottleError ==
    [type |-> "TransportQueryError",
     msg  |-> <<"message", "was", "submitted", "too", "quickly">>]

QueryError ==
    [type |-> "TransportQueryError",
     msg  |-> <<"message", "could", "not", "resolve">>]

NetworkError ==
    [type |-> "ConnectionError", msg |-> <<"connection", "aborted">>]

ValueError ==
    [type |-> "ValueError", msg |-> <<"invalid", "literal", "for", "int">>]

AttributeError ==
    [type |-> "AttributeError", msg |-> <<"NoneType", "has", "no", "attribute", "get">>]

ExhaustedRetries ==
    [type |-> "TransportQueryError",
     msg  |-> <<"Failed", "after", "maximum", "retries", "due", "to", "rate", "limiting">>]

Contains(msg, sig) ==
    \E i \in 1..(Len(msg) - Len(sig) + 1) : SubSeq(msg, i, i + Len(sig) - 1) = sig

IsRateLimitError(e) == Contains(e.msg, Signature)

(***************************************************************************)
(* The remote endpoint.  One transport call gets one Outcome:              *)
(*   first     how the GraphQL request (document + variables) ended:       *)
(*             "ok", "throttle" (rejected as submitted too quickly, not    *)
(*             applied) or "error" (any other failure)                     *)
(*   effect    an "error" request was nevertheless applied by the remote   *)
(*   payload   decoded data of an "ok" request                             *)
(*   second    how the header-reading POST ended: "response" or "network"  *)
(*   remaining, reset   the x-ratelimit-* headers of the last response     *)
(*             the remote sent: of the header-reading POST after an "ok"   *)
(*             request, of the failed request itself otherwise             *)
(***************************************************************************)
Absent == [tag |-> "absent", val |-> 0]

Unparsable == [tag |-> "text", val |-> 0]

Num(n) == [tag |-> "int", val |-> n]

NoPayload == [comment |-> "absent", id |-> ""]

Payloads(o) ==
    IF o = "AddDiscussionComment"
    THEN {[comment |-> "present", id |-> i] : i \in CommentIds \cup {""}}
         \cup {[comment |-> "null", id |-> ""], [comment |-> "absent", id |-> ""]}
    ELSE {NoPayload}

RemainingHeaders == {Absent, Unparsable} \cup {Num(n) : n \in RemainingValues}

ResetHeaders == {Absent, Unparsable} \cup {Num(n) : n \in ResetValues}

Outcomes(o) ==
    [first : {"ok"}, effect : {TRUE}, payload : Payloads(o), second : {"response"},
     remaining : RemainingHeaders, reset : ResetHeaders]
    \cup
    [first : {"ok"}, effect : {TRUE}, payload : {NoPayload}, second : {"network"},
     remaining : {Absent}, reset : {Absent}]
    \cup
    [first : {"throttle"}, effect : {FALSE}, payload : {NoPayload}, second : {"none"},
     remaining : {Absent}, reset : {Absent}]
    \cup
    [first : {"throttle"}, effect : {FALSE}, payload : {NoPayload}, second : {"none"},
     remaining : {Num(0)}, reset : {Num(n) : n \in ResetValues}]
    \cup
    [first : {"error"}, effect : BOOLEAN, payload : {NoPayload}, second : {"none"},
     remaining : {Absent}, reset : {Absent}]
    \cup
    [first : {"error"}, effect : BOOLEAN, payload : {NoPayload}, second : {"none"},
     remaining : {Num(0)}, reset : {Num(n) : n \in ResetValues}]

NoOutcome ==
    [first |-> "none", effect |-> FALSE, payload |-> NoPayload, second |-> "none",
     remaining |-> Absent, reset |-> Absent]

(***************************************************************************)
(* RateLimitedTransport.execute, lines 12-31                               *)
(***************************************************************************)
\* rate_limit_headers.get(key, -1)
HeaderGet(h, default) == IF h.tag = "absent" THEN Num(default) ELSE h

\* int(v): a value that is not an integer literal raises ValueError
IntRaises(v) == v.tag = "text"

\* lines 21-22: the two assignments, in order; the first int() that raises
\* leaves every later assignment undone
ReadRateLimitHeaders(o, rem, rst) ==
    LET r == HeaderGet(o.remaining, MissingHeader)
        s == HeaderGet(o.reset, MissingHeader)
    IN  IF IntRaises(r)
        THEN [remaining |-> rem, reset |-> rst, exc |-> ValueError]
        ELSE IF IntRaises(s)
        THEN [remaining |-> Some(r.val), reset |-> rst, exc |-> ValueError]
        ELSE [remaining |-> Some(r.val), reset |-> Some(s.val), exc |-> NoExc]

\* a transport that also stores the quota headers of a failed request
TransportExecute_UpdateOnFailure(o, rem, rst) ==
    IF o.first \in {"throttle", "error"}
    THEN [remaining |-> Some(HeaderGet(o.remaining, MissingHeader).val),
          reset |-> Some(HeaderGet(o.reset, MissingHeader).val),
          exc |-> IF o.first = "throttle" THEN ThrottleError ELSE QueryError,
          ret |-> NoPayload, posts |-> 1,
          applied |-> IF o.effect THEN 1 ELSE 0]
    ELSE IF o.second = "network"
    THEN [remaining |-> rem, reset |-> rst, exc |-> NetworkError,
          ret |-> NoPayload, posts |-> 2, applied |-> 1]
    ELSE LET h == ReadRateLimitHeaders(o, rem, rst)
         IN  [remaining |-> h.remaining, reset |-> h.reset, exc |-> h.exc,
              ret |-> IF h.exc = NoExc THEN o.payload ELSE NoPayload,
              posts |-> 2, applied |-> 1]

\* the whole call: what it leaves in the rate state, what it raises or returns,
\* how many POSTs it sent and whether the remote applied the operation.
\* Line 14 sends the document with its variables; line 17 posts the document
\* text again without variables, only to read the headers of that response:
\* every mutation of the client takes a required $input, so the second POST
\* is never applied.  Nothing is read from a response when line 14 raises.
TransportExecute(o, rem, rst) ==
    IF o.first = "throttle"
    THEN [remaining |-> rem, reset |-> rst, exc |-> ThrottleError,
          ret |-> NoPayload, posts |-> 1, applied |-> 0]
    ELSE IF o.first = "error"
    THEN [remaining |-> rem, reset |-> rst, exc |-> QueryError,
          ret |-> NoPayload, posts |-> 1, applied |-> IF o.effect THEN 1 ELSE 0]
    ELSE IF o.second = "network"
    THEN [remaining |-> rem, reset |-> rst, exc |-> NetworkError,
          ret |-> NoPayload, posts |-> 2, applied |-> 1]
    ELSE LET h == ReadRateLimitHeaders(o, rem, rst)
         IN  [remaining |-> h.remaining, reset |-> h.reset, exc |-> h.exc,
              ret |-> IF h.exc = NoExc THEN o.payload ELSE NoPayload,
              posts |-> 2, applied |-> 1]

(***************************************************************************)
(* GitHubDiscussionsClient._wait_if_rate_limited, lines 42-57              *)
(***************************************************************************)
IsUnknown(f) == f = None \/ f = Some(MissingHeader)

\* line 53: max(reset_time - time.time(), 1)
SleepTime_NoFloor(rst, t) == Max(rst - t, 0)

SleepTime(rst, t) == Max(rst - t, MinSleep)

\* seconds slept by the gate (0: it returned without sleeping)
WaitSeconds_NoUnknownCheck(rem, rst, t) ==
    IF rem = None \/ rst = None THEN 0
    ELSE IF rem[1] = 0 THEN SleepTime(rst[1], t)
    ELSE 0

WaitSeconds_Always(rem, rst, t) ==
    IF rem = None \/ rst = None THEN 0
    ELSE IF rem[1] = MissingHeader \/ rst[1] = MissingHeader THEN 0
    ELSE SleepTime(rst[1], t)

WaitSeconds(rem, rst, t) ==
    IF rem = None \/ rst = None THEN 0
    ELSE IF rem[1] = MissingHeader \/ rst[1] = MissingHeader THEN 0
    ELSE IF rem[1] = 0 THEN SleepTime(rst[1], t)
    ELSE 0

NoWait == [evaluated |-> FALSE, remaining |-> None, reset |-> None,
           at |-> 0, secs |-> 0]

(***************************************************************************)
(* GitHubDiscussionsClient.execute_query, lines 63-84                      *)
(***************************************************************************)
\* line 77: delay = 5 ** attempt
BackoffDelay_Linear(a) == BackoffBase * a

BackoffDelay(a) == Pow(BackoffBase, a)

\* line 72: the error classes that are retried
Retryable_Any(e) == TRUE

Retryable_ByClass(e) == e.type = "TransportQueryError"

Retryable(e) == IsRateLimitError(e)

\* line 75: a retry follows only while attempts remain
AttemptsRemain_OneMore(a) == a <= max_retries

AttemptsRemain(a) == a < max_retries

\* lines 67-69: each iteration of the loop enters the try block at the gate
LoopBodyEntry_GateOnce(a) == IF a = 0 THEN "try" ELSE "send"

LoopBodyEntry(a) == "try"

\* start of a call of execute_query(query, variables); prior holds the
\* execute_query calls the running client method made before this one
StartExecute(o, a, prior) ==
    /\ op' = o
    /\ arg' = a
    /\ attempt' = 0
    /\ exc' = NoExc
    /\ ret' = NoPayload
    /\ attempts' = <<>>
    /\ sleeps' = <<>>
    /\ applied' = 0
    /\ requests' = 0
    /\ lastResp' = NoOutcome
    /\ lastWait' = NoWait
    /\ calls' = Append(prior, [op |-> o, arg |-> a])
    /\ pc' = "while"
    /\ UNCHANGED <<rate_limit_remaining, rate_limit_reset, now, gated,
                   quotaSlept, allPositive>>

\* line 67 (and line 84 once the loop condition fails)
WhileTest ==
    /\ pc = "while"
    /\ IF attempt < max_retries
       THEN /\ pc' = LoopBodyEntry(attempt)
            /\ exc' = exc
       ELSE /\ pc' = "raised"
            /\ exc' = ExhaustedRetries
    /\ UNCHANGED <<rate_limit_remaining, rate_limit_reset, now, api, is_answer,
                   op, arg, attempt, ret, result, api_status, attempts, sleeps,
                   applied, requests, lastWait, lastResp, gated, calls, ncalls,
                   quotaSlept, allPositive>>
    /\ UNCHANGED <<effects, mainVars>>

\* line 69: self._wait_if_rate_limited()
WaitIfRateLimited ==
    /\ pc = "try"
    /\ LET secs == WaitSeconds(rate_limit_remaining, rate_limit_reset, now)
       IN  /\ now' = now + secs
           /\ lastWait' = [evaluated |-> TRUE,
                           remaining |-> rate_limit_remaining,
                           reset |-> rate_limit_reset,
                           at |-> now, secs |-> secs]
           /\ sleeps' = IF secs > 0
                        THEN Append(sleeps, [kind |-> "quota", secs |-> secs,
                                             after |-> Len(attempts)])
                        ELSE sleeps
           /\ quotaSlept' = (quotaSlept \/ secs > 0)
    /\ gated' = TRUE
    /\ pc' = "send"
    /\ UNCHANGED <<rate_limit_remaining, rate_limit_reset, api, is_answer, op,
                   arg, attempt, exc, ret, result, api_status, attempts,
                   applied, requests, lastResp, calls, ncalls, allPositive>>
    /\ UNCHANGED <<effects, mainVars>>

\* line 70: return self.client.execute(query, variable_values=variables)
ClientExecute(o) ==
    /\ pc = "send"
    /\ LET r == TransportExecute(o, rate_limit_remaining, rate_limit_reset)
       IN  /\ rate_limit_remaining' = r.remaining
           /\ rate_limit_reset' = r.reset
           /\ exc' = r.exc
           /\ ret' = r.ret
           /\ requests' = r.posts
           /\ applied' = applied + r.applied
           /\ attempts' = Append(attempts,
                                 IF r.exc = NoExc THEN "ok"
                                 ELSE IF o.first = "throttle" THEN "throttle"
                                 ELSE "other")
           /\ pc' = IF r.exc = NoExc THEN "returned" ELSE "except"
    /\ lastResp' = o
    /\ gated' = FALSE
    /\ allPositive' = (allPositive /\
                         (o.second = "response" =>
                            (o.remaining.tag = "int" /\ o.remaining.val > 0)))
    /\ UNCHANGED <<now, api, is_answer, op, arg, attempt, result, api_status,
                   sleeps, lastWait, calls, ncalls, quotaSlept>>
    /\ effects' = IF TransportExecute(o, rate_limit_remaining, rate_limit_reset).applied = 1
                  THEN Append(effects, op) ELSE effects
    /\ UNCHANGED mainVars

\* lines 71-81: the except block
ExceptHandler ==
    /\ pc = "except"
    /\ IF Retryable(exc)
       THEN /\ attempt' = attempt + 1
            /\ IF AttemptsRemain(attempt + 1)
               THEN /\ now' = now + BackoffDelay(attempt + 1)
                    /\ sleeps' = Append(sleeps,
                                        [kind |-> "backoff",
                                         secs |-> BackoffDelay(attempt + 1),
                                         after |-> Len(attempts)])
                    /\ pc' = "while"
               ELSE /\ pc' = "raised"
                    /\ UNCHANGED <<now, sleeps>>
       ELSE /\ pc' = "raised"
            /\ UNCHANGED <<attempt, now, sleeps>>
    /\ UNCHANGED <<rate_limit_remaining, rate_limit_reset, api, is_answer, op,
                   arg, exc, ret, result, api_status, attempts, applied, requests,
                   lastWait, lastResp, gated, calls, ncalls, quotaSlept,
                   allPositive>>
    /\ UNCHANGED <<effects, mainVars>>

(***************************************************************************)
(* The client methods, lines 86-204, and their caller                      *)
(***************************************************************************)
SimpleApis == {"create_discussion", "get_discussion_categories", "get_repository_id"}

\* entry of a client method: the caller passes from idle into the method
Invoke(a, ia) ==
    /\ pc = "idle"
    /\ ncalls' = ncalls + 1
    /\ api' = a
    /\ is_answer' = ia
    /\ api_status' = "running"
    /\ result' = NoPayload
    /\ effects' = <<>>

\* a caller that uses the client directly, for at most MaxCalls methods
Enter(a, ia) ==
    /\ mpc = "off"
    /\ ncalls < MaxCalls
    /\ Invoke(a, ia)
    /\ UNCHANGED mainVars

\* lines 86-108
create_discussion ==
    /\ Enter("create_discussion", FALSE)
    /\ StartExecute("CreateDiscussion", "", <<>>)

\* lines 110-131
get_discussion_categories ==
    /\ Enter("get_discussion_categories", FALSE)
    /\ StartExecute("GetDiscussionCategories", "", <<>>)

\* lines 133-148
get_repository_id ==
    /\ Enter("get_repository_id", FALSE)
    /\ StartExecute("GetRepositoryId", "", <<>>)

\* lines 150-181: create_comment up to its first execute_query
create_comment(ia) ==
    /\ Enter("create_comment", ia)
    /\ StartExecute("AddDiscussionComment", "", <<>>)

\* lines 108, 131, 148: return self.execute_query(...)
ReturnResult ==
    /\ pc = "returned"
    /\ api \in SimpleApis
    /\ result' = ret
    /\ api_status' = "ok"
    /\ pc' = "idle"
    /\ UNCHANGED <<rate_limit_remaining, rate_limit_reset, now, api, is_answer,
                   op, arg, attempt, exc, ret, attempts, sleeps, applied, requests,
                   lastWait, lastResp, gated, calls, ncalls, quotaSlept,
                   allPositive>>
    /\ UNCHANGED <<effects, mainVars>>

\* line 184: result.get('addDiscussionComment', {}).get('comment', {}).get('id')
\* a comment that is null has no get: AttributeError
CommentIdRaises(r) == r.comment = "null"

CommentId(r) == IF r.comment = "present" THEN r.id ELSE ""

\* line 184: the condition of the second call (a non-empty string is truthy)
ShouldMark_WrongKey(ia, r) == ia /\ r.comment = "absent" /\ r.id # ""

ShouldMark(ia, r) == ia /\ CommentId(r) # ""

\* lines 181-204, after the add-comment execute_query has returned
CreateCommentAfterAdd ==
    /\ pc = "returned"
    /\ api = "create_comment"
    /\ op = "AddDiscussionComment"
    /\ result' = ret
    /\ IF is_answer /\ CommentIdRaises(ret)
       THEN /\ exc' = AttributeError
            /\ api_status' = "error"
            /\ pc' = "idle"
            /\ UNCHANGED <<rate_limit_remaining, rate_limit_reset, now, op, arg,
                           attempt, ret, attempts, sleeps, applied, requests,
                           lastWait, lastResp, gated, calls, quotaSlept,
                           allPositive>>
       ELSE IF ShouldMark(is_answer, ret)
       THEN /\ StartExecute("MarkDiscussionCommentAsAnswer", CommentId(ret), calls)
            /\ UNCHANGED api_status
       ELSE /\ api_status' = "ok"
            /\ pc' = "idle"
            /\ UNCHANGED <<rate_limit_remaining, rate_limit_reset, now, op, arg,
                           attempt, exc, ret, attempts, sleeps, applied, requests,
                           lastWait, lastResp, gated, calls, quotaSlept,
                           allPositive>>
    /\ UNCHANGED <<api, is_answer, ncalls, effects, mainVars>>

\* lines 202-204, after the mark-as-answer execute_query has returned
CreateCommentAfterMark ==
    /\ pc = "returned"
    /\ api = "create_comment"
    /\ op = "MarkDiscussionCommentAsAnswer"
    /\ api_status' = "ok"
    /\ pc' = "idle"
    /\ UNCHANGED <<rate_limit_remaining, rate_limit_reset, now, api, is_answer,
                   op, arg, attempt, exc, ret, result, attempts, sleeps, applied,
                   requests, lastWait, lastResp, gated, calls, ncalls, quotaSlept,
                   allPositive>>
    /\ UNCHANGED <<effects, mainVars>>

\* a client method that swallows the exception and returns normally
Propagate_Swallow ==
    /\ pc = "raised"
    /\ api_status' = "ok"
    /\ pc' = "idle"
    /\ UNCHANGED <<rate_limit_remaining, rate_limit_reset, now, api, is_answer,
                   op, arg, attempt, exc, ret, result, attempts, sleeps, applied,
                   requests, lastWait, lastResp, gated, calls, ncalls, quotaSlept,
                   allPositive>>
    /\ UNCHANGED <<effects, mainVars>>

\* an exception leaving execute_query leaves the client method too: no
\* client method has a try block
Propagate ==
    /\ pc = "raised"
    /\ api_status' = "error"
    /\ pc' = "idle"
    /\ UNCHANGED <<rate_limit_remaining, rate_limit_reset, now, api, is_answer,
                   op, arg, attempt, exc, ret, result, attempts, sleeps, applied,
                   requests, lastWait, lastResp, gated, calls, ncalls, quotaSlept,
                   allPositive>>
    /\ UNCHANGED <<effects, mainVars>>

(***************************************************************************)
(* main.py: the driver                                                     *)
(***************************************************************************)
clientVars == <<rate_limit_remaining, rate_limit_reset, now, pc, api, is_answer,
                op, arg, attempt, exc, ret, result, api_status, attempts,
                sleeps, applied, requests, lastWait, lastResp, gated, calls,
                ncalls, quotaSlept, allPositive, effects>>

\* posts of one run
MaxPosts == 2

\* line 101 and line 102
process_questions_and_answers == FALSE

process_articles == TRUE

\* data/users.json, line 93: the ids of the users loaded
users == {7}

\* data/posts.json, line 88: StackOverflowPost records, the fields main reads
Post(i, t, o, a, p) ==
    [id |-> i, postType |-> t, ownerUserId |-> o, acceptedAnswerId |-> a,
     parentId |-> p]

PostPool ==
    { Post(1, "question", 7, Some(2), None),
      Post(2, "answer", 7, None, Some(1)),
      Post(4, "answer", 7, None, Some(9)),
      Post(3, "article", 7, None, None),
      Post(5, "article", 8, None, None) }

PostLists == UNION { [1..n -> PostPool] : n \in 0..MaxPosts }

\* --repo, lines 25-29: absent (None) or a text, here a sequence of tokens
RepoArgs == { None, Some(<<"owner">>), Some(<<"owner", "/", "name">>) }

\* the category listings the remote may hold, lines 33-45
CategoryListings == { {"Q&A", "Articles"}, {"Q&A"}, {"Articles"} }

\* line 71: args.repo.split('/')
RECURSIVE Split(_)
Split(t) ==
    IF t = <<>> THEN << <<>> >>
    ELSE LET rest == Split(Tail(t))
         IN  IF Head(t) = "/" THEN << <<>> >> \o rest
             ELSE << <<Head(t)>> \o Head(rest) >> \o Tail(rest)

\* a lookup that finds every category
get_category_id_Always(categories, name) == Some(name)

\* lines 33-38 and 40-45: the id of the named category, None when missing
get_category_id(categories, name) == IF name \in categories THEN Some(name) ELSE None

\* lines 48-49
find_user_by_id(us, user_id) == IF user_id \in us THEN Some(user_id) ELSE None

\* lines 108-111 and 131-134
Attribution_Always(maybeUser) == "Written by"

Attribution(maybeUser) == IF maybeUser # None THEN "Written by" ELSE ""

\* one entry of mlog: a print or a call of a client method, made while the
\* loop was at position at (0 outside the loop)
Event(e, k, attribution, flag) ==
    [ev |-> e, at |-> k, attribution |-> attribution, flag |-> flag]

\* lines 148-152: the except block of main
Fatal ==
    /\ mlog' = Append(mlog, Event("fatal", idx, "", FALSE))
    /\ exit_code' = Some(1)
    /\ mpc' = "exit"

\* lines 66-72
MainStart ==
    /\ mpc = "start"
    /\ pc = "idle"
    /\ IF repo = None \/ Len(Split(repo[1])) # 2
       THEN /\ Fatal
            /\ UNCHANGED clientVars
       ELSE /\ Invoke("get_repository_id", FALSE)
            /\ StartExecute("GetRepositoryId", "", <<>>)
            /\ mpc' = "repo_id"
            /\ UNCHANGED <<mlog, exit_code>>
    /\ UNCHANGED <<repo, remote_categories, posts, idx, discussion_tokens,
                   answer_ids>>

\* lines 72-77, once get_repository_id has returned
MainAfterRepoId ==
    /\ mpc = "repo_id"
    /\ pc = "idle"
    /\ api_status = "ok"
    /\ Invoke("get_discussion_categories", FALSE)
    /\ StartExecute("GetDiscussionCategories", "", <<>>)
    /\ mpc' = "categories"
    /\ mlog' = Append(mlog, Event("connected", 0, "", FALSE))
    /\ UNCHANGED <<repo, remote_categories, posts, idx, discussion_tokens,
                   answer_ids, exit_code>>

\* lines 77-102, once get_discussion_categories has returned; sys.exit raises
\* SystemExit, which except Exception does not catch
MainAfterCategories ==
    /\ mpc = "categories"
    /\ pc = "idle"
    /\ api_status = "ok"
    /\ IF get_category_id(remote_categories, "Q&A") = None
       THEN /\ mlog' = Append(mlog, Event("no_qa_category", 0, "", FALSE))
            /\ exit_code' = Some(1)
            /\ mpc' = "exit"
            /\ UNCHANGED idx
       ELSE IF get_category_id(remote_categories, "Articles") = None
       THEN /\ mlog' = Append(mlog, Event("no_articles_category", 0, "", FALSE))
            /\ exit_code' = Some(1)
            /\ mpc' = "exit"
            /\ UNCHANGED idx
       ELSE /\ mpc' = "loop"
            /\ idx' = 1
            /\ UNCHANGED <<mlog, exit_code>>
    /\ discussion_tokens' = <<>>
    /\ answer_ids' = <<>>
    /\ UNCHANGED <<repo, remote_categories, posts>>
    /\ UNCHANGED clientVars

\* lines 104-140: one iteration of the loop, up to the call it makes
ProcessPost ==
    /\ mpc = "loop"
    /\ pc = "idle"
    /\ idx <= Len(posts)
    /\ LET post == posts[idx]
           maybeUser == find_user_by_id(users, post.ownerUserId)
       IN  IF process_questions_and_answers /\ post.postType = "question"
           THEN /\ Invoke("create_discussion", FALSE)
                /\ StartExecute("CreateDiscussion", "Q&A", <<>>)
                /\ mlog' = Append(mlog, Event("create_discussion", idx,
                                              Attribution(maybeUser), FALSE))
                /\ mpc' = "post"
                /\ UNCHANGED <<idx, exit_code>>
           ELSE IF process_questions_and_answers /\ post.postType = "answer"
           THEN IF post.parentId = None \/ post.parentId[1] \notin DOMAIN discussion_tokens
                THEN \* line 126 prints, line 128 subscripts None: TypeError
                     /\ mlog' = mlog \o << Event("no_parent", idx, "", FALSE),
                                           Event("fatal", idx, "", FALSE) >>
                     /\ exit_code' = Some(1)
                     /\ mpc' = "exit"
                     /\ UNCHANGED idx
                     /\ UNCHANGED clientVars
                ELSE LET flag == (IF post.parentId[1] \in DOMAIN answer_ids
                                  THEN answer_ids[post.parentId[1]] ELSE -1) = post.id
                     IN  /\ Invoke("create_comment", flag)
                         /\ StartExecute("AddDiscussionComment", "", <<>>)
                         /\ mlog' = Append(mlog, Event("create_comment", idx, "", flag))
                         /\ mpc' = "post"
                         /\ UNCHANGED <<idx, exit_code>>
           ELSE IF process_articles /\ post.postType = "article"
           THEN /\ Invoke("create_discussion", FALSE)
                /\ StartExecute("CreateDiscussion", "Articles", <<>>)
                /\ mlog' = Append(mlog, Event("create_discussion", idx,
                                              Attribution(maybeUser), FALSE))
                /\ mpc' = "post"
                /\ UNCHANGED <<idx, exit_code>>
           ELSE /\ idx' = idx + 1
                /\ UNCHANGED <<mpc, mlog, exit_code>>
                /\ UNCHANGED clientVars
    /\ UNCHANGED <<repo, remote_categories, posts, discussion_tokens, answer_ids>>

\* lines 118-121, 128 and 136-140: the client method has returned
MainAfterCall ==
    /\ mpc = "post"
    /\ pc = "idle"
    /\ api_status = "ok"
    /\ LET post == posts[idx]
       IN  IF post.postType = "question"
           THEN /\ discussion_tokens' =
                      [k \in DOMAIN discussion_tokens \cup {post.id} |->
                          IF k = post.id THEN result ELSE discussion_tokens[k]]
                /\ answer_ids' =
                      IF post.acceptedAnswerId # None /\ post.acceptedAnswerId[1] > 0
                      THEN [k \in DOMAIN answer_ids \cup {post.id} |->
                              IF k = post.id THEN post.acceptedAnswerId[1]
                              ELSE answer_ids[k]]
                      ELSE answer_ids
           ELSE UNCHANGED <<discussion_tokens, answer_ids>>
    /\ idx' = idx + 1
    /\ mpc' = "loop"
    /\ UNCHANGED <<repo, remote_categories, posts, mlog, exit_code>>
    /\ UNCHANGED clientVars

\* line 146: the loop is over
MainReturn ==
    /\ mpc = "loop"
    /\ pc = "idle"
    /\ idx > Len(posts)
    /\ mpc' = "done"
    /\ exit_code' = Some(0)
    /\ UNCHANGED <<repo, remote_categories, posts, idx, discussion_tokens,
                   answer_ids, mlog>>
    /\ UNCHANGED clientVars

\* a handler that reports the failed post and goes on with the next one
MainExcept_Continue ==
    /\ mpc \in {"repo_id", "categories", "post"}
    /\ pc = "idle"
    /\ api_status = "error"
    /\ mlog' = Append(mlog, Event("fatal", idx, "", FALSE))
    /\ idx' = idx + 1
    /\ mpc' = "loop"
    /\ UNCHANGED <<repo, remote_categories, posts, discussion_tokens,
                   answer_ids, exit_code>>
    /\ UNCHANGED clientVars

\* lines 148-152: an exception has left a client method
MainExcept ==
    /\ mpc \in {"repo_id", "categories", "post"}
    /\ pc = "idle"
    /\ api_status = "error"
    /\ Fatal
    /\ UNCHANGED <<repo, remote_categories, posts, idx, discussion_tokens,
                   answer_ids>>
    /\ UNCHANGED clientVars

\* the return of whichever client method is running
ClientReturn ==
    IF api \in SimpleApis THEN ReturnResult
    ELSE IF op = "AddDiscussionComment" THEN CreateCommentAfterAdd
    ELSE CreateCommentAfterMark

\* the outcomes the remote gives during a run of main: quota headers are
\* present and numeric on a success, absent on a failure
MainOutcomes(o) ==
    { x \in Outcomes(o) :
        /\ x.first = "ok" => (x.second = "response" /\ x.remaining.tag = "int"
                                /\ x.reset.tag = "int")
        /\ x.first # "ok" => x.remaining.tag = "absent" }

(***************************************************************************)
(* Specification                                                           *)
(***************************************************************************)
\* lines 7-10 and 35-40: a fresh client
Init ==
    /\ rate_limit_remaining = None
    /\ rate_limit_reset = None
    /\ now = 1000
    /\ pc = "idle"
    /\ api = "none"
    /\ is_answer = FALSE
    /\ op = "none"
    /\ arg = ""
    /\ attempt = 0
    /\ exc = NoExc
    /\ ret = NoPayload
    /\ result = NoPayload
    /\ api_status = "none"
    /\ attempts = <<>>
    /\ sleeps = <<>>
    /\ applied = 0
    /\ requests = 0
    /\ lastWait = NoWait
    /\ lastResp = NoOutcome
    /\ gated = FALSE
    /\ calls = <<>>
    /\ ncalls = 0
    /\ quotaSlept = FALSE
    /\ allPositive = TRUE
    /\ effects = <<>>
    /\ mpc = "off"
    /\ repo = None
    /\ remote_categories = {}
    /\ posts = <<>>
    /\ idx = 0
    /\ discussion_tokens = <<>>
    /\ answer_ids = <<>>
    /\ mlog = <<>>
    /\ exit_code = None

Next ==
    \/ create_discussion
    \/ get_discussion_categories
    \/ get_repository_id
    \/ \E ia \in BOOLEAN : create_comment(ia)
    \/ WhileTest
    \/ WaitIfRateLimited
    \/ \E o \in Outcomes(op) : ClientExecute(o)
    \/ ExceptHandler
    \/ ReturnResult
    \/ CreateCommentAfterAdd
    \/ CreateCommentAfterMark
    \/ Propagate

Spec == Init /\ [][Next]_vars

\* main() is entered with the command line parsed; the inputs main never
\* reads in a run (the categories and posts behind an unusable --repo) are
\* left at one value
InitMain ==
    /\ rate_limit_remaining = None
    /\ rate_limit_reset = None
    /\ now = 1000
    /\ pc = "idle"
    /\ api = "none"
    /\ is_answer = FALSE
    /\ op = "none"
    /\ arg = ""
    /\ attempt = 0
    /\ exc = NoExc
    /\ ret = NoPayload
    /\ result = NoPayload
    /\ api_status = "none"
    /\ attempts = <<>>
    /\ sleeps = <<>>
    /\ applied = 0
    /\ requests = 0
    /\ lastWait = NoWait
    /\ lastResp = NoOutcome
    /\ gated = FALSE
    /\ calls = <<>>
    /\ ncalls = 0
    /\ quotaSlept = FALSE
    /\ allPositive = TRUE
    /\ effects = <<>>
    /\ mpc = "start"
    /\ repo \in RepoArgs
    /\ remote_categories \in CategoryListings
    /\ posts \in PostLists
    /\ (repo = None \/ Len(Split(repo[1])) # 2)
          => (remote_categories = {"Q&A", "Articles"} /\ posts = <<>>)
    /\ idx = 0
    /\ discussion_tokens = <<>>
    /\ answer_ids = <<>>
    /\ mlog = <<>>
    /\ exit_code = None

NextMain ==
    \/ MainStart
    \/ MainAfterRepoId
    \/ MainAfterCategories
    \/ ProcessPost
    \/ MainAfterCall
    \/ MainReturn
    \/ MainExcept
    \/ WhileTest
    \/ WaitIfRateLimited
    \/ \E o \in MainOutcomes(op) : ClientExecute(o)
    \/ ExceptHandler
    \/ ClientReturn
    \/ Propagate

SpecMain == InitMain /\ [][NextMain]_vars

(***************************************************************************)
(* Properties                                                              *)
(***************************************************************************)
Throttled(n) == [i \in 1..n |-> "throttle"]

Backoffs == SelectSeq(sleeps, LAMBDA z : z.kind = "backoff")

\* the exception the transport raised for the last outcome
OriginalError == TransportExecute(lastResp, None, None).exc

\* C1: when all 4 attempts of execute_query fail with the throttle
\* signature, it has made exactly 4 transport calls and raises the
\* dedicated "failed after maximum retries" error, not the throttle error.
C1_ExhaustedRetries ==
    (pc = "raised" /\ Len(attempts) >= max_retries
       /\ \A i \in 1..max_retries : attempts[i] = "throttle")
    => (Len(attempts) = max_retries /\ exc = ExhaustedRetries)

\* what the code does there: 4 calls, then the last throttle error itself
C1_Observed ==
    pc = "raised" /\ attempts = Throttled(max_retries) /\ exc = ThrottleError

\* C2: when attempts 1-3 fail with the throttle signature and attempt 4
\* succeeds, execute_query returns attempt 4's result and its backoff sleeps
\* are exactly 5, 25 and 125 seconds, the k-th one after the k-th attempt.
C2_BackoffSchedule ==
    (pc = "returned" /\ attempts = Throttled(3) \o <<"ok">>)
    => /\ ret = lastResp.payload
       /\ Backoffs = << [kind |-> "backoff", secs |-> 5,   after |-> 1],
                        [kind |-> "backoff", secs |-> 25,  after |-> 2],
                        [kind |-> "backoff", secs |-> 125, after |-> 3] >>

C2_Witness ==
    /\ pc = "returned"
    /\ attempts = Throttled(3) \o <<"ok">>
    /\ Len(Backoffs) = 3

\* C3: a failure without the throttle signature is the last attempt of its
\* execute_query, on whatever attempt it occurs: no backoff sleep follows
\* it and the exception that leaves execute_query is the one the transport
\* raised.
C3_NoRetryOfOtherErrors ==
    \A i \in 1..Len(attempts) :
        attempts[i] = "other"
        => /\ i = Len(attempts)
           /\ pc \in {"except", "raised", "idle"}
           /\ \A j \in 1..Len(sleeps) :
                 sleeps[j].kind = "backoff" => sleeps[j].after < i
           /\ pc \in {"raised", "idle"} => exc = OriginalError

C3_Witness ==
    /\ pc = "raised"
    /\ attempts = <<"other">>
    /\ sleeps = <<>>
    /\ exc = QueryError

\* C4: one execute_query makes the remote apply its operation at most once:
\* while a further attempt is still to be sent nothing has been applied.
C4_AtMostOnce ==
    /\ applied <= 1
    /\ pc \in {"while", "try", "send"} => applied = 0

C4_Witness ==
    /\ pc = "returned"
    /\ Len(attempts) >= 2
    /\ applied = 1

\* C5: a gate that finds remaining = 0 and a known reset time sleeps
\* max(reset - now, 1) seconds and then proceeds: 10 s for a reset 10 s
\* ahead, 1 s for a reset in the past.
C5_QuotaWait ==
    (lastWait.evaluated /\ lastWait.remaining = Some(0)
       /\ ~IsUnknown(lastWait.reset))
    => /\ lastWait.secs = Max(lastWait.reset[1] - lastWait.at, 1)
       /\ lastWait.secs >= 1
       /\ lastWait.reset[1] = lastWait.at + 10 => lastWait.secs = 10
       /\ lastWait.reset[1] <= lastWait.at => lastWait.secs = 1
       /\ pc = "send" => now = lastWait.at + lastWait.secs

C5_Witness ==
    /\ pc = "send"
    /\ lastWait.evaluated
    /\ lastWait.remaining = Some(0)
    /\ ~IsUnknown(lastWait.reset)
    /\ lastWait.reset[1] < lastWait.at
    /\ lastWait.secs = 1
    /\ \E i \in 1..Len(sleeps) :
          sleeps[i] = [kind |-> "quota", secs |-> 10, after |-> 0]

\* C6: as long as every response read so far reported remaining > 0, no
\* quota wait has happened in the run.
C6_NoSleepWhilePositive == allPositive => ~quotaSlept

C6_Witness ==
    /\ pc = "send"
    /\ allPositive
    /\ lastWait.evaluated
    /\ lastWait.remaining = Some(3)
    /\ ~IsUnknown(lastWait.reset)
    /\ lastWait.secs = 0

\* C7: the gate does not sleep when either rate field is unknown (None
\* before any response, the missing-header value after a response without
\* that header), whatever the other field says.
C7_UnknownProceeds ==
    /\ (lastWait.evaluated
          /\ (IsUnknown(lastWait.remaining) \/ IsUnknown(lastWait.reset)))
       => (lastWait.secs = 0 /\ (pc = "send" => now = lastWait.at))
    /\ (pc = "returned" /\ lastResp.remaining.tag = "absent")
       => IsUnknown(rate_limit_remaining)
    /\ (pc = "returned" /\ lastResp.reset.tag = "absent")
       => IsUnknown(rate_limit_reset)

C7_Witness ==
    /\ pc = "send"
    /\ lastWait.evaluated
    /\ lastWait.remaining = Some(0)
    /\ lastWait.reset = Some(MissingHeader)
    /\ lastWait.secs = 0

\* C8: a successful response whose quota header is absent or not an integer
\* is still returned by the transport, and the rate field of that header is
\* left unknown.
C8_BadHeaderIsUnknown ==
    (pc \in {"returned", "except"} /\ lastResp.first = "ok"
       /\ lastResp.second = "response")
    => /\ lastResp.remaining.tag \in {"absent", "text"}
            => (pc = "returned" /\ IsUnknown(rate_limit_remaining))
       /\ lastResp.reset.tag \in {"absent", "text"}
            => (pc = "returned" /\ IsUnknown(rate_limit_reset))

\* C9: every transport call is preceded by an evaluation of the gate made
\* since the previous transport call and after any backoff sleep.
C9_GateBeforeEveryCall ==
    pc = "send"
    => /\ gated
       /\ lastWait.evaluated
       /\ now = lastWait.at + lastWait.secs

C9_Witness ==
    /\ pc = "send"
    /\ gated
    /\ attempt >= 1
    /\ sleeps # <<>>
    /\ sleeps[Len(sleeps)].kind = "backoff"

\* C10: create_comment with is_answer = True makes two execute_query calls,
\* add-comment then mark-as-answer, when the comment was created, and only
\* the add-comment call when that call failed.
CommentCreated == result.comment = "present" /\ result.id # ""

AddFailed ==
    /\ op = "AddDiscussionComment"
    /\ \/ pc = "raised"
       \/ pc = "idle" /\ api_status = "error" /\ exc # AttributeError

CallOps == [i \in 1..Len(calls) |-> calls[i].op]

C10_TwoCallsOrOne ==
    (api = "create_comment" /\ is_answer)
    => /\ (pc = "idle" /\ CommentCreated)
          => CallOps = <<"AddDiscussionComment", "MarkDiscussionCommentAsAnswer">>
       /\ AddFailed => CallOps = <<"AddDiscussionComment">>
       /\ Len(calls) = 2 => CommentCreated

C10_Witness ==
    /\ pc = "idle"
    /\ api = "create_comment"
    /\ is_answer
    /\ api_status = "ok"
    /\ CommentCreated
    /\ Len(calls) = 2

\* C11: create_comment is not atomic.  When add-comment succeeded and the
\* mark-as-answer call failed, the method ends with that failure and returns
\* nothing, the remote keeps the comment it created, no further call undoes
\* it, and the comment is unmarked unless the remote applied the failed
\* request.
MarkFailed ==
    /\ api = "create_comment"
    /\ pc = "idle"
    /\ op = "MarkDiscussionCommentAsAnswer"
    /\ attempts # <<>>
    /\ attempts[Len(attempts)] # "ok"

Count(seq, x) == Cardinality({i \in 1..Len(seq) : seq[i] = x})

C17_UpdatedAfterEveryResponse ==
    (pc = "except" /\ lastResp.first \in {"throttle", "error"}
       /\ lastResp.remaining.tag = "int" /\ lastResp.reset.tag = "int")
    => /\ rate_limit_remaining = Some(lastResp.remaining.val)
       /\ rate_limit_reset = Some(lastResp.reset.val)

\* C17 (amended): the rate state is written only after a request that
\* succeeded; a request that fails leaves both fields as the gate saw them
\* just before the call, whatever quota headers its response carried.
C17_UpdatedOnlyAfterSuccess ==
    /\ (pc = "except" /\ lastResp.first \in {"throttle", "error"})
       => /\ rate_limit_remaining = lastWait.remaining
          /\ rate_limit_reset = lastWait.reset
    /\ pc = "returned"
       => /\ rate_limit_remaining =
                Some(IF lastResp.remaining.tag = "absent" THEN MissingHeader
                     ELSE lastResp.remaining.val)
          /\ rate_limit_reset =
                Some(IF lastResp.reset.tag = "absent" THEN MissingHeader
                     ELSE lastResp.reset.val)

C17_Witness ==
    /\ pc = "except"
    /\ lastResp.first = "throttle"
    /\ lastResp.remaining = Num(0)
    /\ rate_limit_remaining = Some(3)

\* C18: one transport call sends exactly one HTTP request.
C18_OneRequestPerSend ==
    (pc \in {"returned", "except"} /\ attempts # <<>>) => requests = 1

\* what the code does: a successful call has sent two
C18_Observed == pc = "returned" /\ requests = 2

\* position inside execute_query, and a measure of the work it has left:
\* the transport calls still allowed, then the position inside the iteration
InExecute == pc \in {"while", "try", "send", "except"}

Rank(p) ==
    CASE p = "while" -> 3 [] p = "try" -> 2 [] p = "send" -> 1
      [] p = "except" -> 4 [] OTHER -> 0

Variant == 4 * (max_retries - Len(attempts)) + Rank(pc)

RECURSIVE SumSecs(_)
SumSecs(seq) == IF seq = <<>> THEN 0 ELSE Head(seq).secs + SumSecs(Tail(seq))

ExecuteBounded ==
    /\ Len(attempts) <= 4
    /\ Len(Backoffs) <= 3
    /\ SumSecs(Backoffs) <= 5 + 25 + 125
    /\ pc \in {"raised", "idle"}
       => \A j \in 1..Len(sleeps) :
             sleeps[j].kind = "backoff" => sleeps[j].after < Len(attempts)

\* C20: execute_query terminates, after at most 4 transport calls and at
\* most 3 backoff sleeps (5 + 25 + 125 s at most), none of them after the
\* last failed call: inside execute_query a step is always possible and every
\* step lowers a measure that cannot go below zero.
C20_Terminates ==
    /\ [](ExecuteBounded /\ (InExecute => ENABLED Next))
    /\ [][InExecute => (Variant' < Variant /\ Variant' >= 0)]_vars

C20_Witness ==
    /\ pc = "raised"
    /\ Len(attempts) = 4
    /\ Len(Backoffs) = 3
    /\ SumSecs(Backoffs) = 155

\* the add-comment call of create_comment has returned a response and the
\* method has ended; result holds that response (line 181)
AddReturned ==
    /\ api = "create_comment"
    /\ pc = "idle"
    /\ \/ op = "MarkDiscussionCommentAsAnswer" /\ api_status \in {"ok", "error"}
       \/ op = "AddDiscussionComment" /\ api_status = "ok"
       \/ op = "AddDiscussionComment" /\ api_status = "error" /\ exc = AttributeError

NoCommentId(r) == r.comment # "present" \/ r.id = ""

\* C21: the mark-as-answer call is made only when is_answer is true and the
\* add-comment response held a non-empty comment id, and its argument is
\* that id; when is_answer is false or the response holds no comment id,
\* create_comment makes exactly one call and returns the add-comment result.
C21_MarkOnlyWithId ==
    api = "create_comment" =>
       /\ \A i \in 1..Len(calls) :
             calls[i].op = "MarkDiscussionCommentAsAnswer"
             => /\ i = 2
                /\ calls[1].op = "AddDiscussionComment"
                /\ is_answer
                /\ ~NoCommentId(result)
                /\ calls[i].arg = result.id
       /\ (AddReturned /\ (~is_answer \/ NoCommentId(result)))
             => /\ CallOps = <<"AddDiscussionComment">>
                /\ api_status = "ok"
                /\ result = ret

C21_Observed ==
    /\ AddReturned
    /\ is_answer
    /\ result = [comment |-> "null", id |-> ""]
    /\ CallOps = <<"AddDiscussionComment">>
    /\ api_status = "error"
    /\ exc = AttributeError

(***************************************************************************)
(* Properties of the driver                                                *)
(***************************************************************************)
\* the calls of client methods the driver has made, in order
MainCalls == SelectSeq(mlog, LAMBDA e : e.ev \in {"create_discussion", "create_comment"})

\* the entries of mlog written while the loop was at position k
EventsAt(k, e) == { i \in 1..Len(mlog) : mlog[i].at = k /\ mlog[i].ev = e }

Finished == mpc \in {"done", "exit"}

\* C12: a run over a question followed by its accepted answer creates one
\* discussion for the question and then one comment for the answer, marked
\* as the chosen answer.
C12_QuestionThenAcceptedAnswer ==
    (mpc = "done" /\ Len(posts) = 2
        /\ posts[1].postType = "question" /\ posts[2].postType = "answer"
        /\ posts[2].parentId = Some(posts[1].id)
        /\ posts[1].acceptedAnswerId = Some(posts[2].id))
    => /\ Len(MainCalls) = 2
       /\ MainCalls[1].ev = "create_discussion" /\ MainCalls[1].at = 1
       /\ MainCalls[2].ev = "create_comment" /\ MainCalls[2].at = 2
       /\ MainCalls[2].flag

C12_Observed ==
    /\ mpc = "done" /\ Len(posts) = 2
    /\ posts[1].postType = "question" /\ posts[2].postType = "answer"
    /\ posts[2].parentId = Some(posts[1].id)
    /\ posts[1].acceptedAnswerId = Some(posts[2].id)
    /\ MainCalls = <<>>

\* C13: an answer whose parent question has no stored discussion gets a
\* diagnostic, no comment is created for it, and the run goes on.
C13_OrphanAnswerReported ==
    \A k \in 1..Len(posts) :
        (k < idx /\ posts[k].postType = "answer"
            /\ posts[k].parentId[1] \notin DOMAIN discussion_tokens)
        => /\ EventsAt(k, "no_parent") # {}
           /\ EventsAt(k, "create_comment") = {}

C13_Observed ==
    /\ mpc = "done"
    /\ \E k \in 1..Len(posts) :
          /\ posts[k].postType = "answer"
          /\ posts[k].parentId[1] \notin DOMAIN discussion_tokens
          /\ EventsAt(k, "no_parent") = {}

\* a post of a kind the loop handles, whose owner is not among the users
UnknownOwner(k) ==
    /\ posts[k].postType = "article"
    /\ find_user_by_id(users, posts[k].ownerUserId) = None

\* C14 as stated: a post whose owner is not among the users gets a
\* diagnostic and is skipped.
C14_UnknownOwnerSkipped ==
    \A k \in 1..Len(posts) :
        (k < idx /\ UnknownOwner(k))
        => /\ \E i \in 1..Len(mlog) : mlog[i].at = k /\ mlog[i].ev \notin {"create_discussion", "create_comment"}
           /\ EventsAt(k, "create_discussion") = {}

\* C14: an article whose owner is not among the users is still created,
\* once, with an empty attribution; nothing is printed about the owner, and
\* when the creation succeeds the loop goes on to the next post.
C14_UnknownOwnerUnattributed ==
    \A k \in 1..Len(posts) :
        (k <= idx /\ UnknownOwner(k) /\ (k = idx => mpc \in {"post", "exit"}))
        => /\ Cardinality(EventsAt(k, "create_discussion")) = 1
           /\ \A i \in EventsAt(k, "create_discussion") : mlog[i].attribution = ""
           /\ \A i \in 1..Len(mlog) :
                 mlog[i].at = k => mlog[i].ev \in {"create_discussion", "fatal"}
           /\ \A i \in EventsAt(k, "fatal") : api_status = "error" /\ k = idx
           /\ (k = idx /\ mpc = "post" /\ pc = "idle" /\ api_status = "ok")
                 => ENABLED MainAfterCall

C14_Witness ==
    /\ mpc = "done"
    /\ Len(posts) = 2
    /\ UnknownOwner(1)
    /\ Len(MainCalls) = 2

\* a failure has left a client method while the driver was waiting for it
FailureReachedDriver == mpc # "off" /\ pc = "idle" /\ api_status = "error"

\* C15: when a failure leaves a client method, the driver prints a
\* diagnostic and ends with a non-zero status; it makes no further call, for
\* the failed post or any later one.
C15_FailFast ==
    /\ FailureReachedDriver =>
          \/ /\ mpc \in {"repo_id", "categories", "post"}
             /\ exit_code = None
             /\ ENABLED MainExcept
             /\ ~ENABLED (MainStart \/ MainAfterRepoId \/ MainAfterCategories
                            \/ ProcessPost \/ MainAfterCall \/ MainReturn)
          \/ /\ mpc = "exit"
             /\ exit_code = Some(1)
             /\ mlog # <<>> /\ mlog[Len(mlog)].ev = "fatal"
             /\ \/ idx = 0 /\ MainCalls = <<>>
                \/ idx >= 1 /\ MainCalls # <<>> /\ MainCalls[Len(MainCalls)].at = idx
             /\ ~ENABLED NextMain
    /\ (mpc = "exit" /\ exit_code = Some(1)) => ~ENABLED NextMain

C15_Witness ==
    /\ FailureReachedDriver
    /\ mpc = "exit"
    /\ idx = 1
    /\ Len(posts) = 2
    /\ posts[2].postType = "article"
    /\ exc.type = "TransportQueryError"

C16_Observed ==
    /\ repo = None
    /\ Finished
    /\ exit_code = Some(1)
    /\ MainCalls = <<>>
    /\ requests = 0

\* the answer at position k is the accepted answer of its parent question,
\* met earlier in the run
Accepted(k) ==
    \E j \in 1..(k - 1) :
        /\ posts[j].postType = "question"
        /\ Some(posts[j].id) = posts[k].parentId
        /\ posts[j].acceptedAnswerId # None
        /\ posts[j].acceptedAnswerId[1] > 0
        /\ posts[j].acceptedAnswerId[1] = posts[k].id

\* C22: the comment of an answer is created with is_answer true exactly
\* when its parent question carried an acceptedAnswerId that is set, greater
\* than 0 and equal to the id of the answer.
C22_FlagIffAccepted ==
    /\ \A k \in 1..Len(posts) :
          (k < idx /\ posts[k].postType = "answer" /\ Accepted(k))
          => \E i \in EventsAt(k, "create_comment") : mlog[i].flag
    /\ \A i \in 1..Len(mlog) :
          (mlog[i].ev = "create_comment" /\ mlog[i].flag)
          => (posts[mlog[i].at].postType = "answer" /\ Accepted(mlog[i].at))

C22_Observed ==
    /\ Finished
    /\ exit_code = Some(0)
    /\ \E k \in 1..Len(posts) :
          /\ posts[k].postType = "answer"
          /\ Accepted(k)
          /\ EventsAt(k, "create_comment") = {}

\* the read calls have succeeded and a category is missing from the listing
CategoryMissing ==
    /\ mpc = "exit"
    /\ api = "get_discussion_categories"
    /\ api_status = "ok"
    /\ remote_categories # {"Q&A", "Articles"}

\* C23: no create_discussion or create_comment call is made unless the
\* repository id was resolved and the listing holds both the Q&A and the
\* Articles category; when one is missing the process exits with status 1
\* having made the two read calls and nothing else.
C23_NoWriteWithoutCategories ==
    /\ MainCalls # <<>>
          => /\ EventsAt(0, "connected") # {}
             /\ {"Q&A", "Articles"} \subseteq remote_categories
    /\ (Finished /\ remote_categories # {"Q&A", "Articles"})
          => /\ exit_code = Some(1)
             /\ MainCalls = <<>>
             /\ ncalls <= 2
             /\ idx = 0
             /\ ~ENABLED NextMain
    /\ (pc = "idle" /\ api = "get_discussion_categories" /\ api_status = "ok"
          /\ remote_categories # {"Q&A", "Articles"})
          => \/ mpc = "categories" /\ ENABLED MainAfterCategories
             \/ /\ CategoryMissing
                /\ ncalls = 2
                /\ mlog[Len(mlog)].ev =
                      IF "Q&A" \notin remote_categories THEN "no_qa_category"
                      ELSE "no_articles_category"

C23_Witness ==
    /\ CategoryMissing
    /\ remote_categories = {"Q&A"}
    /\ exit_code = Some(1)
    /\ ncalls = 2
    /\ posts # <<>>
    /\ posts[1].postType = "article"
    /\ MainCalls = <<>>

====
